---- MODULE Spec2Model ----
(***************************************************************************)
(* Letter-tracing game: the Level/Session Orchestrator (App.tsx) and the   *)
(* Tracing Surface (TracingCard) as one state machine.                     *)
(*                                                                         *)
(* React semantics used throughout: a handler reads the state of the       *)
(* render it was created in (the unprimed variables) and its setState      *)
(* calls take effect in the commit that ends the handler (the primed       *)
(* variables).  Refs (isDrawingRef, lastPosRef, inkCanvasRef) and canvas   *)
(* contents are mutated in place.  One action is one handler together with *)
(* the commit and the effects that follow it.                              *)
(*                                                                         *)
(* Coordinates.  Pointer positions are drawn from Points, given in the     *)
(* letter's 0..100 space of the surface as it is when the event arrives.   *)
(* CSS pixels are kept in tenths of a pixel (dpx), normalised coordinates  *)
(* in hundredths of a unit (fixed point standing in for the doubles of     *)
(* the source).                                                            *)
(***************************************************************************)
EXTENDS Integers, Sequences, FiniteSets, TLC

---------------------------------------------------------------------------
(* Static data: constants.ts                                               *)

LEVELS == << [letter |-> "A", word |-> "Apple"], [letter |-> "a", word |-> "Ant"] >>

\* Mutant: the points are given in a 0..200 space
Pt_Doubled(px, py) == [x |-> 2 * px, y |-> 2 * py]

Pt(px, py) == [x |-> px, y |-> py]

LineTo(s, e, rot) ==
    [cmd |-> "L", start |-> s, end |-> e, r |-> 0, large |-> 0, sweep |-> 0,
     arrowRotation |-> rot]

ArcTo(s, e, rad, lg, sw, rot) ==
    [cmd |-> "A", start |-> s, end |-> e, r |-> rad, large |-> lg, sweep |-> sw,
     arrowRotation |-> rot]

\* Mutant: the table has no entry for the lower-case letter
LETTER_PATHS_NoLower ==
    [l \in {"A"} |->
        << LineTo(Pt(50, 15), Pt(20, 85), 115),
           LineTo(Pt(50, 15), Pt(80, 85), 65),
           LineTo(Pt(30, 60), Pt(70, 60), 0) >>]

LETTER_PATHS ==
    [l \in {"A", "a"} |->
        IF l = "A"
        THEN << LineTo(Pt(50, 15), Pt(20, 85), 115),
                LineTo(Pt(50, 15), Pt(80, 85), 65),
                LineTo(Pt(30, 60), Pt(70, 60), 0) >>
        ELSE << ArcTo(Pt(70, 45), Pt(70, 75), 20, 1, 0, -45),
                LineTo(Pt(70, 40), Pt(70, 85), 90) >>]

---------------------------------------------------------------------------
(* Arithmetic helpers                                                      *)

Abs(n) == IF n < 0 THEN -n ELSE n

RECURSIVE IsqrtBetween(_, _, _)
IsqrtBetween(n, lo, hi) ==
    IF lo >= hi THEN lo
    ELSE LET mid == (lo + hi + 1) \div 2
         IN  IF mid * mid <= n THEN IsqrtBetween(n, mid, hi)
             ELSE IsqrtBetween(n, lo, mid - 1)

\* floor(sqrt(n)) for 0 <= n < 2^31
Isqrt(n) == IsqrtBetween(n, 0, 46340)

---------------------------------------------------------------------------
(* Surface geometry                                                        *)

\* (CSS width of the square container, devicePixelRatio): the two widths of
\* the container's class list (w-[300px], md:w-[450px]) on a 2x display.
Surfaces == { <<300, 2>>, <<450, 2>> }

\* Pointer positions, in the 0..100 space of the surface.  The same points
\* are the pixels at which the ink canvas is observed.
Points ==
    { << 35, 50 >>, << 18, 90 >>, << 28, 85 >>, << 79, 84 >>, << 69, 60 >>, << 70, 80 >> }

NoPos == << >>

HitLineWidth == 24
TrackWidth == 16
EndTolerancePct == 8
SampleStepPx == 2
BrushPermille == 65

Strokes(letter) == LETTER_PATHS[letter]

\* toPx / getPoint, in tenths of a CSS pixel: (val / 100) * size
toPx(val, size) == (val * size) \div 10

getPoint(p, w, h) == << toPx(p.x, w), toPx(p.y, h) >>

\* e.clientX - rect.left, e.clientY - rect.top for a pointer at p on a surface
\* of width w
ClientPos(p, w) == << toPx(p[1], w), toPx(p[2], w) >>

\* Math.hypot squared, on tenths of a pixel
DistSq(a, b) == (a[1] - b[1]) * (a[1] - b[1]) + (a[2] - b[2]) * (a[2] - b[2])

CeilSqrt(n) == LET r == Isqrt(n) IN IF r * r = n THEN r ELSE r + 1

\* steps = Math.ceil(dist / 2)
StepsBetween(last, cur) ==
    (CeilSqrt(DistSq(last, cur)) + (10 * SampleStepPx - 1)) \div (10 * SampleStepPx)

\* lerp(start, end, t) with t = i / steps (t = 1 when steps = 0)
lerp(start, end, i, steps) ==
    IF steps = 0 THEN end ELSE (start * (steps - i) + end * i) \div steps

\* A CSS position (tenths of px) in the path's 0..100 space, in hundredths:
\* the inverse of ctx.scale((w * dpr) / 100, (h * dpr) / 100) applied to
\* (x * dpr, y * dpr)
ToPathSpace(pos, w) == << (pos[1] * 1000) \div w, (pos[2] * 1000) \div w >>

Cross(a, b) == a[1] * b[2] - a[2] * b[1]

\* Centre of an SVG elliptical-arc segment with rx = ry and no rotation, in
\* hundredths (SVG implementation notes, F.6.5).
ArcCentre(s) ==
    LET x1p2 == s.start.x - s.end.x
        y1p2 == s.start.y - s.end.y
        q4   == x1p2 * x1p2 + y1p2 * y1p2
        H    == Isqrt((4 * s.r * s.r - q4) * 10000)
        Q    == Isqrt(q4 * 10000)
        sign == IF s.large # s.sweep THEN 1 ELSE -1
    IN  << (sign * y1p2 * 50 * H) \div Q + 50 * (s.start.x + s.end.x),
           (-sign * x1p2 * 50 * H) \div Q + 50 * (s.start.y + s.end.y) >>

\* v lies in the sweep of increasing angle from a to b
InSweepPos(a, b, v) ==
    IF Cross(a, b) >= 0
    THEN Cross(a, v) >= 0 /\ Cross(v, b) >= 0
    ELSE ~(Cross(b, v) > 0 /\ Cross(v, a) > 0)

\* What hit testing needs of a stroke's path, computed once per stroke: ten
\* times the line width times the length of a segment, the centre of an arc.
PathGeom(s) ==
    IF s.cmd = "L"
    THEN LET dX == s.end.x - s.start.x
             dY == s.end.y - s.start.y
         IN  [K |-> Isqrt(HitLineWidth * HitLineWidth * 100 * (dX * dX + dY * dY)),
              C |-> << 0, 0 >>]
    ELSE [K |-> 0, C |-> ArcCentre(s)]

\* ctx.isPointInStroke(path2d, ...) with lineWidth = 24 and butt caps, for a
\* point q of the path's space in hundredths
HitLine(s, g, q) ==
    LET dX    == s.end.x - s.start.x
        dY    == s.end.y - s.start.y
        vX    == q[1] - 100 * s.start.x
        vY    == q[2] - 100 * s.start.y
        dot   == vX * dX + vY * dY
        cross == vX * dY - vY * dX
    IN  /\ dot >= 0
        /\ dot <= 100 * (dX * dX + dY * dY)
        /\ 2 * Abs(cross) <= 10 * g.K

HitArc(s, g, q) ==
    LET v     == << q[1] - g.C[1], q[2] - g.C[2] >>
        u1    == << 100 * s.start.x - g.C[1], 100 * s.start.y - g.C[2] >>
        u2    == << 100 * s.end.x - g.C[1], 100 * s.end.y - g.C[2] >>
        rho2  == v[1] * v[1] + v[2] * v[2]
        inner == 50 * (2 * s.r - HitLineWidth)
        outer == 50 * (2 * s.r + HitLineWidth)
    IN  /\ rho2 <= outer * outer
        /\ (inner <= 0 \/ rho2 >= inner * inner)
        /\ IF s.sweep = 1 THEN InSweepPos(u1, u2, v) ELSE InSweepPos(u2, u1, v)

\* Mutant: the band is tested with twice the line width
IsPointInStroke_DoubleBand(s, g, q) ==
    IF s.cmd = "L"
    THEN HitLine(s, [g EXCEPT !.K = 2 * @], q)
    ELSE LET v     == << q[1] - g.C[1], q[2] - g.C[2] >>
             u1    == << 100 * s.start.x - g.C[1], 100 * s.start.y - g.C[2] >>
             u2    == << 100 * s.end.x - g.C[1], 100 * s.end.y - g.C[2] >>
             rho2  == v[1] * v[1] + v[2] * v[2]
             outer == 100 * (s.r + HitLineWidth)
         IN  /\ rho2 <= outer * outer
             /\ IF s.sweep = 1 THEN InSweepPos(u1, u2, v) ELSE InSweepPos(u2, u1, v)

IsPointInStroke(s, g, q) ==
    IF s.cmd = "L" THEN HitLine(s, g, q) ELSE HitArc(s, g, q)

\* The samples of one draw() that pass the hit test, as CSS positions
\* (tenths of px): the interpolation loop of draw().
HitSamples(s, last, cur, w) ==
    LET steps == StepsBetween(last, cur)
        g     == PathGeom(s)
    IN  { pos \in { << lerp(last[1], cur[1], i, steps),
                      lerp(last[2], cur[2], i, steps) >> : i \in 0..steps } :
            IsPointInStroke(s, g, ToPathSpace(pos, w)) }

Widths == { sf[1] : sf \in Surfaces }

\* A pointer position as lastPosRef holds it: the point and the width of the
\* surface it was measured on.
LastPositions == Points \X Widths

StrokeIds ==
    UNION { { << l, i >> : i \in 1..Len(LETTER_PATHS[l]) } : l \in DOMAIN LETTER_PATHS }

\* Physical geometry of an allocated ink canvas: << width, scale of its
\* transform >>
InkGeoms == { << sf[1] * sf[2], sf[2] >> : sf \in Surfaces }

\* inkCtx.arc(x, y, w * 0.065, ...); fill() at CSS position h, through the ink
\* context's transform scale(g[2], g[2]), paints the pixel that shows at point
\* q of a canvas of physical width g[1].
Covers(h, q, w, g) ==
    LET r  == (BrushPermille * w * g[2]) \div 100
        dx == h[1] * g[2] - (q[1] * g[1]) \div 10
        dy == h[2] * g[2] - (q[2] * g[1]) \div 10
    IN  dx * dx + dy * dy <= r * r

\* The observed pixels one draw() paints, for every stroke, last position,
\* current position and ink canvas of the model; evaluated once.
StampTable ==
    [k \in StrokeIds \X LastPositions \X LastPositions \X InkGeoms |->
        LET hits == HitSamples(LETTER_PATHS[k[1][1]][k[1][2]],
                               ClientPos(k[2][1], k[2][2]),
                               ClientPos(k[3][1], k[3][2]), k[3][2])
        IN  { q \in Points : \E h \in hits : Covers(h, q, k[3][2], k[4]) }]
    @@ << >>

\* Mutant: the snap is stroked with the hit-test width
SnapCovers_HitWidth(s, q) ==
    LET dX   == s.end.x - s.start.x
        dY   == s.end.y - s.start.y
        vX   == q[1] - s.start.x
        vY   == q[2] - s.start.y
        dS   == vX * vX + vY * vY
        dE   == (q[1] - s.end.x) * (q[1] - s.end.x) + (q[2] - s.end.y) * (q[2] - s.end.y)
        dot  == vX * dX + vY * dY
        crs  == vX * dY - vY * dX
        len2 == dX * dX + dY * dY
        W2   == HitLineWidth * HitLineWidth
    IN  IF s.cmd = "L"
        THEN IF dot < 0 THEN 4 * dS <= W2
             ELSE IF dot > len2 THEN 4 * dE <= W2
             ELSE 4 * crs * crs <= W2 * len2
        ELSE LET c     == ArcCentre(s)
                 v     == << 100 * q[1] - c[1], 100 * q[2] - c[2] >>
                 u1    == << 100 * s.start.x - c[1], 100 * s.start.y - c[2] >>
                 u2    == << 100 * s.end.x - c[1], 100 * s.end.y - c[2] >>
                 rho2  == v[1] * v[1] + v[2] * v[2]
                 inner == 50 * (2 * s.r - HitLineWidth)
                 outer == 50 * (2 * s.r + HitLineWidth)
             IN  \/ 4 * dS <= W2
                 \/ 4 * dE <= W2
                 \/ /\ rho2 <= outer * outer
                    /\ (inner <= 0 \/ rho2 >= inner * inner)
                    /\ IF s.sweep = 1 THEN InSweepPos(u1, u2, v) ELSE InSweepPos(u2, u1, v)

\* completeStroke's snap: ctx.scale((w * dpr) / 100, (h * dpr) / 100);
\* lineCap = 'round'; lineWidth = 16; ctx.stroke(new Path2D(stroke.path))
\* paints the pixel that shows at point q of the 0..100 space, whatever the
\* size of the canvas
SnapCovers(s, q) ==
    LET dX   == s.end.x - s.start.x
        dY   == s.end.y - s.start.y
        vX   == q[1] - s.start.x
        vY   == q[2] - s.start.y
        dS   == vX * vX + vY * vY
        dE   == (q[1] - s.end.x) * (q[1] - s.end.x) + (q[2] - s.end.y) * (q[2] - s.end.y)
        dot  == vX * dX + vY * dY
        crs  == vX * dY - vY * dX
        len2 == dX * dX + dY * dY
        W2   == TrackWidth * TrackWidth
    IN  IF s.cmd = "L"
        THEN IF dot < 0 THEN 4 * dS <= W2
             ELSE IF dot > len2 THEN 4 * dE <= W2
             ELSE 4 * crs * crs <= W2 * len2
        ELSE LET c     == ArcCentre(s)
                 v     == << 100 * q[1] - c[1], 100 * q[2] - c[2] >>
                 u1    == << 100 * s.start.x - c[1], 100 * s.start.y - c[2] >>
                 u2    == << 100 * s.end.x - c[1], 100 * s.end.y - c[2] >>
                 rho2  == v[1] * v[1] + v[2] * v[2]
                 inner == 50 * (2 * s.r - TrackWidth)
                 outer == 50 * (2 * s.r + TrackWidth)
             IN  \/ 4 * dS <= W2
                 \/ 4 * dE <= W2
                 \/ /\ rho2 <= outer * outer
                    /\ (inner <= 0 \/ rho2 >= inner * inner)
                    /\ IF s.sweep = 1 THEN InSweepPos(u1, u2, v) ELSE InSweepPos(u2, u1, v)

\* The observed pixels that show ink on an ink canvas of that letter: those
\* the brush painted and those the snapped strokes cover
InkPixels(letter, inkv) ==
    inkv.stamps \cup
        { q \in Points : \E j \in inkv.snapped : SnapCovers(LETTER_PATHS[letter][j + 1], q) }

\* Mutant: a tolerance of 80% of the width
ReachedEnd_Wide(s, cur, w) ==
    DistSq(cur, getPoint(s.end, w, w)) < ((80 * w) * (80 * w) + 99) \div 100

\* distToEnd < w * 0.08
ReachedEnd(s, cur, w) ==
    DistSq(cur, getPoint(s.end, w, w))
        < ((EndTolerancePct * w) * (EndTolerancePct * w) + 99) \div 100


---------------------------------------------------------------------------
(* State                                                                   *)

VARIABLES
    \* App.tsx
    gameState,          \* GameState
    currentLevelIdx,    \* index into LEVELS, from 0
    deerState,          \* DeerState
    stars,
    penalties,
    pending,            \* the handleLevelSuccess call in flight and what its closure captured
    \* TracingCard
    activeStrokeIdx,    \* from 0
    mistakes,
    successTriggered,
    isDrawing,          \* isDrawingRef.current
    lastPos,            \* lastPosRef.current
    ink,                \* inkCanvasRef.current: its size, its transform, the observed
                        \* pixels painted by the brush, the strokes snapped onto it
    initPending,        \* the initCanvas callbacks Effect 2 has registered and not
                        \* released: timers not yet fired, resize listeners
    frame,              \* what the visible canvas shows
    \* environment
    surface,            \* << container width, devicePixelRatio >>
    \* history, for stating the properties
    successCalls,       \* onSuccess invocations by the mounted TracingCard
    hadPenaltyArg,      \* argument of its last onSuccess invocation
    resets,             \* Reset clicks delivered to the mounted TracingCard
    penalised,          \* levels of this session that reported hadPenalty = TRUE
    cbView,             \* committed TracingCard state at the moment onSuccess ran
    thrown,             \* a render of the TracingCard has thrown, which unmounts it
    \* configuration and platform
    missing,            \* letters of LEVELS that have no entry in LETTER_PATHS
    ctxAvailable,       \* canvas.getContext('2d') returns a context
    \* App and GestureControl
    isGestureMode,      \* GestureControl is mounted
    landmarker,         \* createHandLandmarker() of the instance and what it yielded
    camera,             \* getUserMedia() of the instance and the tracks it yielded
    predicting,         \* the predict loop runs (loadeddata has fired)
    wasPinching,        \* wasPinching.current
    synth               \* history: the last synthetic pointer event dispatched

appVars  == << gameState, currentLevelIdx, deerState, stars, penalties, pending >>
cardVars == << activeStrokeIdx, mistakes, successTriggered, isDrawing, lastPos, ink,
               initPending, frame >>
histVars == << successCalls, hadPenaltyArg, resets, penalised, cbView, thrown >>
envVars  == << missing, ctxAvailable >>
gestVars == << isGestureMode, landmarker, camera, predicting, wasPinching, synth >>
coreVars == << appVars, cardVars, surface, histVars, envVars >>
vars     == << coreVars, gestVars >>

\* Reset clicks modelled per letter attempt
MaxMistakes == 1

NumLevels == Len(LEVELS)
currentLevel == LEVELS[currentLevelIdx + 1]
letterConfig == LETTER_PATHS[currentLevel.letter]
NumStrokes == Len(letterConfig)

\* isActive={gameState === GameState.PLAYING}
IsActive == gameState = "PLAYING"

\* {gameState === GameState.INTRO ? ... : <TracingCard .../>}; a render that
\* throws leaves no TracingCard
Mounted == gameState # "INTRO" /\ ~thrown

NoInk == [size |-> 0, scale |-> 0, stamps |-> {}, snapped |-> {}]
NoGuide == -1
Blank == [drawn |-> FALSE, guide |-> NoGuide, inked |-> FALSE]
Idle == [phase |-> "idle", levelIdx |-> 0, penalties |-> 0, audio |-> FALSE]
NotCalled == [called |-> FALSE, idx |-> 0, success |-> FALSE, snapped |-> FALSE]

\* Mutant: the success flag survives a level change
FreshSession_KeepSuccess ==
    [activeStrokeIdx |-> 0, mistakes |-> 0, successTriggered |-> successTriggered]

\* Mutant: the session survives a level change without clearing the mistakes
FreshSession_KeepMistakes ==
    [activeStrokeIdx |-> 0, mistakes |-> mistakes, successTriggered |-> FALSE]

\* useState(0), useState(0), useState(false) and Effect 1
FreshSession == [activeStrokeIdx |-> 0, mistakes |-> 0, successTriggered |-> FALSE]

\* The letters of LEVELS for which LETTER_PATHS[levelData.letter] is undefined
MissingGeometry == { LEVELS[i].letter : i \in 1..NumLevels } \ DOMAIN LETTER_PATHS

\* LETTER_PATHS[letter] is not undefined
HasGeometry(letter) == letter \notin missing

\* The TracingCard's JSX, rendered with isActive: "!successTriggered &&
\* isActive && activeStrokeIdx < letterConfig.strokes.length" dereferences
\* letterConfig
RenderThrows(letter, active) == active /\ ~HasGeometry(letter)

\* No initCanvas callback is registered
NoCallbacks == [timers |-> {}, listeners |-> {}]

\* The initCanvas of a render: useCallback's dependencies are letterConfig and
\* activeStrokeIdx
Callback(letter, idx) == << letter, idx >>

\* The initCanvas of the committed render
CurrentCallback == Callback(currentLevel.letter, activeStrokeIdx)

\* Mutant: the cleanup leaves the timer running
Cleanup_KeepTimer(reg, cb) == [reg EXCEPT !.listeners = @ \ {cb}]

\* Effect 2's cleanup for the callback cb: removeEventListener('resize', cb);
\* clearTimeout(timer)
Cleanup(reg, cb) == [timers |-> reg.timers \ {cb}, listeners |-> reg.listeners \ {cb}]

\* Effect 2's body for the callback cb: setTimeout(cb, 50);
\* addEventListener('resize', cb)
Register(reg, cb) == [timers |-> reg.timers \cup {cb}, listeners |-> reg.listeners \cup {cb}]

\* A TracingCard instance is created for a level of that letter (first mount,
\* or key change), the game being in PLAYING; the instance it replaces, if
\* any, is torn down, which runs its Effect 2 cleanup
MountCard(letter) ==
    /\ activeStrokeIdx' = FreshSession.activeStrokeIdx
    /\ mistakes' = FreshSession.mistakes
    /\ successTriggered' = FreshSession.successTriggered
    /\ isDrawing' = FALSE
    /\ lastPos' = NoPos
    /\ ink' = NoInk
    /\ initPending' = IF RenderThrows(letter, TRUE)
                      THEN Cleanup(initPending, CurrentCallback)
                      ELSE Register(Cleanup(initPending, CurrentCallback),
                                    Callback(letter, FreshSession.activeStrokeIdx))
    /\ frame' = Blank
    /\ successCalls' = 0
    /\ hadPenaltyArg' = "none"
    /\ resets' = 0
    /\ cbView' = NotCalled
    /\ thrown' = RenderThrows(letter, TRUE)

\* No synthetic pointer event has been dispatched
NoSynth == [type |-> "none", buttons |-> 0, onCanvas |-> FALSE, seq |-> 0]

\* useState(false) of isGestureMode: no GestureControl instance
GestureOff ==
    /\ isGestureMode = FALSE
    /\ landmarker = "none"
    /\ camera = "none"
    /\ predicting = FALSE
    /\ wasPinching = FALSE
    /\ synth = NoSynth

\* The state after construction, whatever the configuration and platform
InitState ==
    /\ gameState = "INTRO"
    /\ currentLevelIdx = 0
    /\ deerState = "IDLE"
    /\ stars = 3
    /\ penalties = 0
    /\ pending = Idle
    /\ activeStrokeIdx = 0
    /\ mistakes = 0
    /\ successTriggered = FALSE
    /\ isDrawing = FALSE
    /\ lastPos = NoPos
    /\ ink = NoInk
    /\ initPending = NoCallbacks
    /\ frame = Blank
    /\ surface \in Surfaces
    /\ successCalls = 0
    /\ hadPenaltyArg = "none"
    /\ resets = 0
    /\ penalised = {}
    /\ cbView = NotCalled
    /\ thrown = FALSE
    /\ GestureOff

\* The program as shipped: every letter of LEVELS has its geometry, and the
\* canvas gives a 2D context
Init ==
    /\ missing = MissingGeometry
    /\ ctxAvailable = TRUE
    /\ InitState

\* Any configuration and platform: letters of LEVELS may lack geometry, and
\* the canvas may give no 2D context
InitEnv ==
    /\ missing \in SUBSET { LEVELS[i].letter : i \in 1..NumLevels }
    /\ ctxAvailable \in BOOLEAN
    /\ InitState


---------------------------------------------------------------------------
(* TracingCard: rendering and initialisation                               *)

\* Mutant: the render pass does not check the context it gets
renderFrame_Unguarded(idx, inkv) ==
    [drawn |-> TRUE,
     guide |-> IF idx < NumStrokes THEN idx ELSE NoGuide,
     inked |-> inkv.stamps # {} \/ inkv.snapped # {}]

\* renderFrame() run by a closure whose activeStrokeIdx is idx, over the ink
\* canvas inkv: tracks of all strokes, the guide of stroke idx if there is
\* one, and the ink composited on top (whether any ink shows).
renderFrame(idx, inkv) ==
    IF ~ctxAvailable THEN frame     \* "if (!ctx) return"
    ELSE [drawn |-> TRUE,
          guide |-> IF idx < NumStrokes THEN idx ELSE NoGuide,
          inked |-> inkv.stamps # {} \/ inkv.snapped # {}]

\* Mutant: the ink canvas is re-allocated on every initCanvas
InitInk_AlwaysRealloc(sf, inkv) ==
    [size |-> sf[1] * sf[2], scale |-> sf[2], stamps |-> {}, snapped |-> {}]

\* initCanvas(): the ink canvas is created if missing and re-allocated, which
\* clears it and sets its transform to scale(dpr, dpr), only when its
\* physical size differs from width * dpr.
InitInk(sf, inkv) ==
    IF inkv.size # sf[1] * sf[2]
    THEN [size |-> sf[1] * sf[2], scale |-> IF ctxAvailable THEN sf[2] ELSE 1,
          stamps |-> {}, snapped |-> {}]
    ELSE inkv

\* Mutant: the ink canvas is not cleared
ClearInk_Keep(inkv) == inkv

\* resetTransform(); clearRect(0, 0, width, height) on the ink canvas, if any
ClearInk(inkv) ==
    IF inkv = NoInk THEN NoInk ELSE [inkv EXCEPT !.stamps = {}, !.snapped = {}]

\* A registered callback still belongs to the mounted instance: canvasRef and
\* containerRef of a torn-down instance are null, and its initCanvas returns
CallbackLive(cb) == Mounted /\ cb[1] = currentLevel.letter

\* initCanvas() of the callback cb on a surface sf; its renderFrame() draws the
\* guide of the activeStrokeIdx the callback was created with
initCanvas(cb, sf) ==
    IF CallbackLive(cb)
    THEN /\ ink' = InitInk(sf, ink)
         /\ frame' = renderFrame(cb[2], InitInk(sf, ink))
    ELSE UNCHANGED << ink, frame >>

\* A timer of Effect 2 fires and runs its initCanvas
InitTimer ==
    /\ Mounted
    /\ \E cb \in initPending.timers :
          /\ initPending' = [initPending EXCEPT !.timers = @ \ {cb}]
          /\ initCanvas(cb, surface)
    /\ UNCHANGED << appVars, activeStrokeIdx, mistakes, successTriggered, isDrawing,
                    lastPos, surface, envVars, histVars >>
    /\ UNCHANGED gestVars

\* The window is resized: the container keeps its width or gets the other
\* one, and the resize listener runs initCanvas.
Resize(sf) ==
    /\ surface' = sf
    /\ IF initPending.listeners # {}
       THEN \E cb \in initPending.listeners : initCanvas(cb, sf)
       ELSE UNCHANGED << ink, frame >>
    /\ UNCHANGED << appVars, activeStrokeIdx, mistakes, successTriggered, isDrawing,
                    lastPos, initPending, histVars, envVars >>
    /\ UNCHANGED gestVars

---------------------------------------------------------------------------
(* App: level success, advance, finish, restart                            *)

DeerFor(levelIdx) ==
    IF levelIdx = 0 THEN "GUITAR" ELSE "ACCORDION"

\* Mutant: five penalties already cost the last star
StarsFor_Strict(p) ==
    IF p >= 5 THEN 0 ELSE IF p >= 3 THEN 1 ELSE IF p >= 1 THEN 2 ELSE 3

\* finishGame(): stars from the penalties its closure sees
StarsFor(p) ==
    IF p > 5 THEN 0 ELSE IF p >= 3 THEN 1 ELSE IF p >= 1 THEN 2 ELSE 3

\* handleLevelSuccess(hadPenalty) up to its await: the closure of the render
\* that passed it as onSuccess keeps currentLevelIdx and penalties.
handleLevelSuccess(hadPenalty) ==
    /\ penalties' = IF hadPenalty THEN penalties + 1 ELSE penalties
    /\ gameState' = "SUCCESS_ANIMATION"
    /\ deerState' = DeerFor(currentLevelIdx)
    /\ pending' = [phase |-> "speech", levelIdx |-> currentLevelIdx,
                   penalties |-> penalties, audio |-> FALSE]
    /\ penalised' = IF hadPenalty THEN penalised \cup {currentLevelIdx} ELSE penalised
    /\ UNCHANGED << currentLevelIdx, stars >>

\* Mutant: the advance timer is set only when there is audio to play
SpeechReturns_TimerOnAudio(hasAudio) ==
    /\ pending.phase = "speech"
    /\ pending' = [pending EXCEPT !.phase = IF hasAudio THEN "timer" ELSE "silent",
                                  !.audio = hasAudio]
    /\ UNCHANGED << gameState, currentLevelIdx, deerState, stars, penalties,
                    cardVars, surface, envVars, histVars >>
    /\ UNCHANGED gestVars

\* generatePronunciation resolves, with a buffer or with null; both timers
\* are then set.
SpeechReturns(hasAudio) ==
    /\ pending.phase = "speech"
    /\ pending' = [pending EXCEPT !.phase = "timer", !.audio = hasAudio]
    /\ UNCHANGED << gameState, currentLevelIdx, deerState, stars, penalties,
                    cardVars, surface, envVars, histVars >>
    /\ UNCHANGED gestVars

\* Mutant: the last but one level is taken for the last
HasNextLevel_OffByOne(levelIdx) == levelIdx < NumLevels - 2

\* currentLevelIdx < LEVELS.length - 1, in the closure of handleLevelSuccess
HasNextLevel(levelIdx) == levelIdx < NumLevels - 1

\* The 3000 ms timer of handleLevelSuccess fires.
AdvanceTimer ==
    /\ pending.phase = "timer"
    /\ pending' = Idle
    /\ deerState' = "IDLE"
    /\ IF HasNextLevel(pending.levelIdx)
       THEN /\ currentLevelIdx' = currentLevelIdx + 1
            /\ gameState' = "PLAYING"
            /\ UNCHANGED << stars, penalties, surface, envVars, penalised >>
            /\ IF LEVELS[currentLevelIdx + 2].letter # currentLevel.letter
               THEN MountCard(LEVELS[currentLevelIdx + 2].letter)
               ELSE UNCHANGED << cardVars, successCalls, hadPenaltyArg, resets, thrown, cbView >>
       ELSE /\ stars' = StarsFor(pending.penalties)
            /\ gameState' = "FINISHED"
            /\ UNCHANGED << currentLevelIdx, penalties, cardVars, surface, envVars, histVars >>
    /\ UNCHANGED gestVars

handleStartGame ==
    /\ gameState = "INTRO"
    /\ gameState' = "PLAYING"
    /\ MountCard(LEVELS[1].letter)
    /\ UNCHANGED << currentLevelIdx, deerState, stars, penalties, pending, surface, envVars,
                    penalised >>
    /\ UNCHANGED gestVars

\* Play Again on the result modal
restartGame ==
    /\ gameState = "FINISHED"
    /\ currentLevelIdx' = 0
    /\ stars' = 3
    /\ penalties' = 0
    /\ deerState' = "IDLE"
    /\ gameState' = "PLAYING"
    /\ penalised' = {}
    /\ UNCHANGED << pending, surface, envVars >>
    /\ IF LEVELS[1].letter # currentLevel.letter
       THEN MountCard(LEVELS[1].letter)
       ELSE UNCHANGED << cardVars, successCalls, hadPenaltyArg, resets, thrown, cbView >>
    /\ UNCHANGED gestVars


---------------------------------------------------------------------------
(* TracingCard: pointer handling, stroke and letter completion, reset      *)

\* startDrawing's guard
StartAllowed == IsActive /\ ~successTriggered /\ activeStrokeIdx < NumStrokes

\* Mutant: draw does not look at isDrawingRef
DrawAllowed_NoCapture(drawing) == IsActive /\ ~successTriggered

\* draw's guard, with isDrawingRef.current = drawing
DrawAllowed(drawing) == drawing /\ IsActive /\ ~successTriggered

\* draw's "if (!canvas || !inkCanvas) return": the ink canvas exists once
\* initCanvas has run
SurfaceReady == ink # NoInk

\* Mutant: off by one, the letter counts as done one stroke early
IsLetterDone_Early(nextIdx) == nextIdx >= NumStrokes - 1

\* completeStroke: "if (nextIdx >= letterConfig.strokes.length)"
IsLetterDone(nextIdx) == nextIdx >= NumStrokes

\* Mutant: off by one, a single reset is not reported
HadPenalty_OffByOne == mistakes > 1

\* handleFullSuccess: onSuccess(mistakes > 0), mistakes being the closure's
HadPenalty == mistakes > 0

\* Mutant: the Reset button is never disabled
ResetEnabled_Always == TRUE

\* Reset button: disabled={!isActive || successTriggered}
ResetEnabled == IsActive /\ ~successTriggered

\* handleFullSuccess(), called by completeStroke after it has snapped the ink
\* (snappedInk) and requested the new index.
handleFullSuccess(snappedInk) ==
    /\ successTriggered' = TRUE
    /\ handleLevelSuccess(HadPenalty)
    /\ successCalls' = successCalls + 1
    /\ hadPenaltyArg' = HadPenalty
    /\ cbView' = [called |-> TRUE, idx |-> activeStrokeIdx, success |-> successTriggered,
                  snapped |-> activeStrokeIdx \in snappedInk.snapped]

\* Mutant: the index advances by two
NextIdx_Skip == activeStrokeIdx + 2

\* completeStroke: const nextIdx = activeStrokeIdx + 1
NextIdx == activeStrokeIdx + 1

\* Mutant: the capture goes on after the stroke is complete
completeStroke_KeepCapture(inkNow) ==
    /\ activeStrokeIdx' = NextIdx
    /\ initPending' = Register(Cleanup(initPending, CurrentCallback),
                               Callback(currentLevel.letter, NextIdx))
    /\ isDrawing' = TRUE
    /\ lastPos' = NoPos
    /\ ink' = [inkNow EXCEPT !.snapped = @ \cup {activeStrokeIdx}]
    /\ IF IsLetterDone(NextIdx)
       THEN handleFullSuccess([inkNow EXCEPT !.snapped = @ \cup {activeStrokeIdx}])
       ELSE UNCHANGED << successTriggered, appVars, successCalls, hadPenaltyArg,
                         penalised, cbView >>

\* Mutant: the completed stroke is not snapped onto the ink canvas
completeStroke_NoSnap(inkNow) ==
    /\ activeStrokeIdx' = NextIdx
    /\ initPending' = Register(Cleanup(initPending, CurrentCallback),
                               Callback(currentLevel.letter, NextIdx))
    /\ isDrawing' = FALSE
    /\ lastPos' = NoPos
    /\ ink' = inkNow
    /\ IF IsLetterDone(NextIdx)
       THEN handleFullSuccess(inkNow)
       ELSE UNCHANGED << successTriggered, appVars, successCalls, hadPenaltyArg,
                         penalised, cbView >>

\* completeStroke(), the ink canvas holding inkNow when it is called
completeStroke(inkNow) ==
    LET nextIdx    == NextIdx
        snappedInk == [inkNow EXCEPT !.snapped = @ \cup {activeStrokeIdx}]
    IN  /\ activeStrokeIdx' = nextIdx
        \* initCanvas changes with activeStrokeIdx: Effect 2 re-runs
        /\ initPending' = Register(Cleanup(initPending, CurrentCallback),
                                   Callback(currentLevel.letter, nextIdx))
        /\ isDrawing' = FALSE
        /\ lastPos' = NoPos
        /\ ink' = snappedInk
        /\ IF IsLetterDone(nextIdx)
           THEN handleFullSuccess(snappedInk)
           ELSE UNCHANGED << successTriggered, appVars, successCalls, hadPenaltyArg,
                             penalised, cbView >>

\* draw: "if (!ctx || !inkCtx) return" does not return
ContextsAcquired == ctxAvailable

\* Mutant: the first stroke is always taken as the current one
ActiveStrokeNo_First == activeStrokeIdx - activeStrokeIdx + 1

\* draw: currentStroke = letterConfig.strokes[activeStrokeIdx], as an index
\* from 1
ActiveStrokeNo == activeStrokeIdx + 1

\* draw(e) for a pointer at p, entered with isDrawingRef.current = drawing and
\* lastPosRef.current = last.  Reading strokes[activeStrokeIdx] past the end
\* throws, which ends the handler.
draw(p, drawing, last) ==
    IF \/ ~DrawAllowed(drawing)
       \/ ~SurfaceReady
       \/ ~ContextsAcquired
       \/ activeStrokeIdx >= NumStrokes
    THEN /\ isDrawing' = drawing
         /\ lastPos' = last
         /\ UNCHANGED << appVars, activeStrokeIdx, mistakes, successTriggered, ink,
                         initPending, frame, surface, envVars, histVars >>
    ELSE LET w       == surface[1]
             cur     == << p, w >>
             from    == IF last = NoPos THEN cur ELSE last
             stroke  == letterConfig[ActiveStrokeNo]
             hits    == StampTable[<< << currentLevel.letter, ActiveStrokeNo >>, from, cur,
                                      << ink.size, ink.scale >> >>]
             stamped == [ink EXCEPT !.stamps = @ \cup hits]
         IN  /\ UNCHANGED << mistakes, surface, envVars, resets, thrown >>
             /\ IF ReachedEnd(stroke, ClientPos(p, w), w)
                THEN completeStroke(stamped)
                ELSE /\ isDrawing' = drawing
                     /\ lastPos' = cur
                     /\ ink' = stamped
                     /\ UNCHANGED << appVars, activeStrokeIdx, successTriggered, initPending,
                                     successCalls, hadPenaltyArg, penalised, cbView >>
             /\ frame' = renderFrame(activeStrokeIdx, stamped)

\* startDrawing(e) for a pointer at p
startDrawing(p) ==
    IF StartAllowed
    THEN draw(p, TRUE, << p, surface[1] >>)
    ELSE UNCHANGED coreVars

\* onPointerDown={startDrawing}
PointerDown(p) ==
    /\ Mounted
    /\ startDrawing(p)
    /\ UNCHANGED gestVars

\* onPointerMove={draw}
PointerMove(p) ==
    /\ Mounted
    /\ draw(p, isDrawing, lastPos)
    /\ UNCHANGED gestVars

\* Mutant: ending a capture reverts the ink
stopDrawing_Revert ==
    /\ isDrawing' = FALSE
    /\ lastPos' = NoPos
    /\ ink' = ClearInk(ink)
    /\ UNCHANGED << appVars, activeStrokeIdx, mistakes, successTriggered,
                    initPending, frame, surface, envVars, histVars >>

\* stopDrawing
stopDrawing ==
    /\ isDrawing' = FALSE
    /\ lastPos' = NoPos
    /\ UNCHANGED << appVars, activeStrokeIdx, mistakes, successTriggered, ink,
                    initPending, frame, surface, envVars, histVars >>

\* onPointerUp={stopDrawing}
PointerUp == Mounted /\ stopDrawing /\ UNCHANGED gestVars

\* onPointerLeave={stopDrawing}
PointerLeave == Mounted /\ stopDrawing /\ UNCHANGED gestVars

\* handleReset(), reachable through the Reset button while it is enabled.  Its
\* renderFrame() is the closure's, which still holds the old activeStrokeIdx.
handleReset ==
    /\ mistakes' = mistakes + 1
    /\ activeStrokeIdx' = 0
    /\ successTriggered' = FALSE
    /\ ink' = ClearInk(ink)
    /\ frame' = renderFrame(activeStrokeIdx, ClearInk(ink))
    /\ initPending' = IF activeStrokeIdx # 0
                      THEN Register(Cleanup(initPending, CurrentCallback),
                                    Callback(currentLevel.letter, 0))
                      ELSE initPending
    /\ resets' = resets + 1
    /\ UNCHANGED << appVars, isDrawing, lastPos, surface, envVars, successCalls,
                    hadPenaltyArg, penalised, cbView, thrown >>

Reset ==
    /\ Mounted
    /\ ResetEnabled
    /\ mistakes < MaxMistakes
    /\ handleReset
    /\ UNCHANGED gestVars

---------------------------------------------------------------------------

---------------------------------------------------------------------------
(* GestureControl: lifecycle, pinch detection, synthetic pointer events    *)

\* PINCH_START_THRESHOLD and PINCH_STOP_THRESHOLD, in thousandths of the
\* normalised image size, as are the thumb-index distances
PinchStartThreshold == 50
PinchStopThreshold == 90

\* Thumb-index distances of the detection frames: below, at, between, at and
\* above the two thresholds
Distances == { 30, 50, 70, 90, 120 }

\* Positions of the virtual cursor over the tracing container
GesturePoints == { << 35, 50 >>, << 18, 90 >> }

NoPoint == << 0, 0 >>

\* What a detection frame yields: no hand, or a hand with its thumb-index
\* distance and the place of the smoothed cursor: outside the viewport
\* ("none"), over the tracing container at a point ("canvas"), or over
\* another element ("other")
Frames ==
    { [hand |-> FALSE, dist |-> 0, el |-> "none", p |-> NoPoint] }
        \cup [hand : {TRUE}, dist : Distances, el : {"none", "other"}, p : {NoPoint}]
        \cup [hand : {TRUE}, dist : Distances, el : {"canvas"}, p : GesturePoints]

\* setIsGestureMode(!isGestureMode).  Switching on mounts a GestureControl,
\* whose effect calls init(); a new instance is taken up once the requests
\* of the previous one have settled.  Switching off runs the effect's
\* cleanup on the refs as they are.
ToggleGesture ==
    /\ IF ~isGestureMode
       THEN /\ landmarker # "pending"
            /\ camera # "pending"
            /\ isGestureMode' = TRUE
            /\ landmarker' = "pending"
            /\ camera' = "none"
            /\ predicting' = FALSE
            /\ wasPinching' = FALSE
            /\ synth' = NoSynth
       ELSE /\ isGestureMode' = FALSE
            /\ predicting' = FALSE
            /\ camera' = IF camera = "live" THEN "stopped" ELSE camera
            /\ landmarker' = IF landmarker = "open" THEN "closed" ELSE landmarker
            /\ UNCHANGED << wasPinching, synth >>
    /\ UNCHANGED coreVars

\* init() after "await createHandLandmarker()": the landmarker is stored and
\* startCamera() requests the camera unless videoRef.current is null (the
\* instance is unmounted); a rejection sets the error.
LandmarkerResolves(ok) ==
    /\ landmarker = "pending"
    /\ landmarker' = IF ok THEN "open" ELSE "failed"
    /\ camera' = IF ok /\ isGestureMode THEN "pending" ELSE camera
    /\ UNCHANGED << coreVars, isGestureMode, predicting, wasPinching, synth >>

\* startCamera() after "await getUserMedia()": the stream is stored in
\* streamRef; videoRef.current.srcObject = stream throws when the instance is
\* unmounted, which the catch turns into an error message.
CameraResolves(ok) ==
    /\ camera = "pending"
    /\ camera' = IF ok THEN "live" ELSE "denied"
    /\ UNCHANGED << coreVars, isGestureMode, landmarker, predicting, wasPinching, synth >>

\* Mutant: the lower threshold is used to stop as well
IsPinching_NoHysteresis(was, dist) == dist < PinchStartThreshold

\* predict: the pinch with hysteresis, from wasPinching.current = was
IsPinching(was, dist) ==
    IF was
    THEN ~(dist > PinchStopThreshold)
    ELSE dist < PinchStartThreshold

\* document.elementFromPoint(x, y): the canvas takes pointer events only
\* while the TracingCard is mounted and active (pointer-events-none otherwise)
ElementUnder(fr) ==
    IF fr.el = "canvas" /\ ~(Mounted /\ IsActive) THEN "other" ELSE fr.el

\* The PointerEvent dispatchPointerEvent builds from isPinching and
\* wasPinching.current
SynthEvent(pinching, was) ==
    IF pinching /\ ~was THEN [type |-> "pointerdown", buttons |-> 1]
    ELSE IF pinching /\ was THEN [type |-> "pointermove", buttons |-> 1]
    ELSE IF ~pinching /\ was THEN [type |-> "pointerup", buttons |-> 0]
    ELSE [type |-> "pointermove", buttons |-> 0]

\* element.dispatchEvent(event) on the canvas: React calls the handler of the
\* event's type
DeliverToCanvas(ev, p) ==
    IF ev.type = "pointerdown" THEN startDrawing(p)
    ELSE IF ev.type = "pointermove" THEN draw(p, isDrawing, lastPos)
    ELSE stopDrawing

\* Mutant: wasPinching is updated before the element is looked up
dispatchPointerEvent_EarlyUpdate(fr, pinching) ==
    LET el == ElementUnder(fr)
        ev == SynthEvent(pinching, wasPinching)
    IN  /\ wasPinching' = pinching
        /\ IF el = "none"
           THEN UNCHANGED << coreVars, synth >>
           ELSE /\ synth' = [type |-> ev.type, buttons |-> ev.buttons,
                             onCanvas |-> el = "canvas", seq |-> 1 - synth.seq]
                /\ IF el = "canvas"
                   THEN DeliverToCanvas(ev, fr.p)
                   ELSE UNCHANGED coreVars

\* dispatchPointerEvent(x, y, isPinching)
dispatchPointerEvent(fr, pinching) ==
    LET el == ElementUnder(fr)
        ev == SynthEvent(pinching, wasPinching)
    IN  IF el = "none"
        THEN UNCHANGED << coreVars, wasPinching, synth >>
        ELSE /\ wasPinching' = pinching
             /\ synth' = [type |-> ev.type, buttons |-> ev.buttons,
                          onCanvas |-> el = "canvas", seq |-> 1 - synth.seq]
             /\ IF el = "canvas"
                THEN DeliverToCanvas(ev, fr.p)
                ELSE UNCHANGED coreVars

\* One pass of predict() past its guard, detectForVideo yielding fr
detectFrame(fr) ==
    IF fr.hand
    THEN dispatchPointerEvent(fr, IsPinching(wasPinching, fr.dist))
    ELSE UNCHANGED << coreVars, wasPinching, synth >>

\* predict's guard: videoRef.current and handLandmarkerRef.current are set
PredictAllowed == isGestureMode /\ landmarker = "open"

\* 'loadeddata' of the video: the first predict(), which starts the loop
LoadedData(fr) ==
    /\ camera = "live"
    /\ ~predicting
    /\ PredictAllowed
    /\ predicting' = TRUE
    /\ detectFrame(fr)
    /\ UNCHANGED << isGestureMode, landmarker, camera >>

\* requestAnimationFrame(predict)
predict(fr) ==
    /\ predicting
    /\ PredictAllowed
    /\ detectFrame(fr)
    /\ UNCHANGED << isGestureMode, landmarker, camera, predicting >>

---------------------------------------------------------------------------
(* Specifications                                                          *)

Next ==
    \/ handleStartGame
    \/ \E p \in Points : PointerDown(p)
    \/ \E p \in Points : PointerMove(p)
    \/ PointerUp
    \/ PointerLeave
    \/ Reset
    \/ InitTimer
    \/ \E sf \in Surfaces : Resize(sf)
    \/ \E hasAudio \in BOOLEAN : SpeechReturns(hasAudio)
    \/ AdvanceTimer
    \/ restartGame

Spec == Init /\ [][Next]_vars

\* The same program with its asynchronous steps taking place: the promise of
\* generatePronunciation settles (it resolves with null on a missing key, an
\* error or an empty response), and the 3000 ms timer set after the await
\* fires.
FairSpec ==
    /\ Spec
    /\ WF_vars(\E hasAudio \in BOOLEAN : SpeechReturns(hasAudio))
    /\ WF_vars(AdvanceTimer)

\* The same program under any configuration and platform
SpecEnv == InitEnv /\ [][Next]_vars

\* The game played through the gesture bridge only
NextGesture ==
    \/ handleStartGame
    \/ InitTimer
    \/ ToggleGesture
    \/ \E ok \in BOOLEAN : LandmarkerResolves(ok)
    \/ \E ok \in BOOLEAN : CameraResolves(ok)
    \/ \E fr \in Frames : LoadedData(fr)
    \/ \E fr \in Frames : predict(fr)

SpecGesture == Init /\ [][NextGesture]_vars

\* Penalty counts finishGame is tried on
MaxPenalties == 7

\* finishGame on any penalty count: the timer of the last level is about to
\* fire, its closure holding p penalties
InitStars ==
    /\ missing = {}
    /\ ctxAvailable = TRUE
    /\ thrown = FALSE
    /\ GestureOff
    /\ gameState = "SUCCESS_ANIMATION"
    /\ currentLevelIdx = NumLevels - 1
    /\ deerState = DeerFor(currentLevelIdx)
    /\ stars = 3
    /\ penalties \in 0..MaxPenalties
    /\ pending = [phase |-> "timer", levelIdx |-> currentLevelIdx,
                  penalties |-> penalties, audio |-> FALSE]
    /\ activeStrokeIdx = NumStrokes
    /\ mistakes = 0
    /\ successTriggered = TRUE
    /\ isDrawing = FALSE
    /\ lastPos = NoPos
    /\ surface \in Surfaces
    /\ ink = [InitInk(surface, NoInk) EXCEPT !.snapped = 0..(NumStrokes - 1)]
    /\ initPending = [timers |-> {}, listeners |-> {CurrentCallback}]
    /\ frame = renderFrame(activeStrokeIdx, ink)
    /\ successCalls = 1
    /\ hadPenaltyArg = FALSE
    /\ resets = 0
    /\ penalised = {}
    /\ cbView = [called |-> TRUE, idx |-> NumStrokes - 1, success |-> FALSE,
                 snapped |-> TRUE]

\* The steps of a game that has left the intro screen
NextStars ==
    \/ \E p \in Points : PointerDown(p)
    \/ \E p \in Points : PointerMove(p)
    \/ PointerUp
    \/ PointerLeave
    \/ Reset
    \/ InitTimer
    \/ \E sf \in Surfaces : Resize(sf)
    \/ \E hasAudio \in BOOLEAN : SpeechReturns(hasAudio)
    \/ AdvanceTimer
    \/ restartGame

SpecStars == InitStars /\ [][NextStars]_vars

---------------------------------------------------------------------------
(* Hit testing on its own: the first sample of a capture, over a grid of   *)
(* pointer positions                                                       *)

\* Cells of the grid of pointer positions, 5 units apart
GridCells == 20

\* Pointer positions of the hit-testing runs: the grid, and two points next
\* to the arc of "a"
Samples ==
    { << 5 * i, 5 * j >> : i, j \in 0..GridCells } \cup { << 37, 60 >>, << 57, 40 >> }

\* A card mounted on any level, its ink canvas initialised, with any of the
\* letter's strokes active
InitHit ==
    /\ missing = {}
    /\ ctxAvailable = TRUE
    /\ thrown = FALSE
    /\ gameState = "PLAYING"
    /\ currentLevelIdx \in 0..(NumLevels - 1)
    /\ deerState = "IDLE"
    /\ stars = 3
    /\ penalties = 0
    /\ pending = Idle
    /\ activeStrokeIdx \in 0..(NumStrokes - 1)
    /\ mistakes = 0
    /\ successTriggered = FALSE
    /\ isDrawing = FALSE
    /\ lastPos = NoPos
    /\ surface \in Surfaces
    /\ ink = InitInk(surface, NoInk)
    /\ initPending = [timers |-> {}, listeners |-> {CurrentCallback}]
    /\ frame = renderFrame(activeStrokeIdx, ink)
    /\ successCalls = 0
    /\ hadPenaltyArg = "none"
    /\ resets = 0
    /\ penalised = {}
    /\ cbView = NotCalled
    /\ GestureOff

\* startDrawing at q followed by the body of draw's loop for its one sample
\* (steps = 0): the hit test, and the brush dab observed at q itself
HitProbe(q) ==
    /\ StartAllowed
    /\ SurfaceReady
    /\ ~isDrawing
    /\ LET w      == surface[1]
           stroke == letterConfig[ActiveStrokeNo]
           inside == IsPointInStroke(stroke, PathGeom(stroke),
                                     ToPathSpace(ClientPos(q, w), w))
       IN  /\ isDrawing' = TRUE
           /\ lastPos' = << q, w >>
           /\ ink' = [ink EXCEPT !.stamps = IF inside THEN @ \cup {q} ELSE @]
           /\ frame' = renderFrame(activeStrokeIdx, ink')
    /\ UNCHANGED << appVars, activeStrokeIdx, mistakes, successTriggered, initPending,
                    surface, envVars, histVars >>
    /\ UNCHANGED gestVars

NextHit == \E q \in Samples : HitProbe(q)

SpecHit == InitHit /\ [][NextHit]_vars

---------------------------------------------------------------------------
(* Properties                                                              *)

\* No observed pixel is inked and no stroke is snapped
InkEmpty(inkv) == inkv.stamps = {} /\ inkv.snapped = {}

\* The TracingCard instance is replaced by this step (key change)
Remounted == currentLevelIdx' # currentLevelIdx

\* The pointer at p (0..100 space) is strictly within 8% of the width of the
\* active stroke's end point
NearEnd(p) ==
    LET e == letterConfig[activeStrokeIdx + 1].end
    IN  (p[1] - e.x) * (p[1] - e.x) + (p[2] - e.y) * (p[2] - e.y) < 8 * 8

\* This step is a pointer event at p delivered during a capture (a move while
\* capturing, or the pointer-down that starts the capture)
CaptureEventAt(p) ==
    /\ Mounted
    /\ IsActive
    /\ ~successTriggered
    /\ activeStrokeIdx < NumStrokes
    /\ \/ isDrawing /\ PointerMove(p)
       \/ PointerDown(p)

\* This step is a pointer event on the canvas
PointerEvent ==
    \/ \E p \in Points : PointerDown(p) \/ PointerMove(p)
    \/ PointerUp
    \/ PointerLeave

\* C1: the mounted letter attempt has invoked onSuccess exactly once if all
\* its strokes are complete, and never otherwise; it is never invoked twice.
C1_OnSuccessExactlyOnce ==
    successCalls = IF activeStrokeIdx = NumStrokes THEN 1 ELSE 0

C1_Witness ==
    /\ currentLevel.letter = "a"
    /\ activeStrokeIdx = NumStrokes
    /\ successCalls = 1
    /\ gameState = "FINISHED"

\* C2: the flag passed to onSuccess is TRUE exactly when the letter attempt
\* saw at least one reset.
C2_PenaltyIffReset ==
    successCalls > 0 => hadPenaltyArg = (resets > 0)

C2_Witness ==
    /\ successCalls = 1
    /\ resets > 0
    /\ hadPenaltyArg = TRUE
    /\ activeStrokeIdx = NumStrokes

\* C3: when the game is finished, the stars are those of the number of levels
\* (the last one included) that were completed with a penalty.
C3_StarsCountEveryPenalty ==
    gameState = "FINISHED" => stars = StarsFor(Cardinality(penalised))

\* C4 (as stated): the index moves one stroke at a time and goes back to 0
\* only on a reset or a letter change, and every capture event near the active
\* stroke's end advances it, the last one reporting onSuccess(false) when
\* there was no reset.
C4_OrderAndAdvance ==
    [][ /\ \/ activeStrokeIdx' \in { activeStrokeIdx, activeStrokeIdx + 1 }
           \/ activeStrokeIdx' = 0 /\ (resets' = resets + 1 \/ Remounted)
        /\ \A p \in Points :
              CaptureEventAt(p) /\ NearEnd(p) =>
                 /\ activeStrokeIdx' = activeStrokeIdx + 1
                 /\ (activeStrokeIdx + 1 = NumStrokes /\ resets = 0 =>
                        successCalls' = 1 /\ hadPenaltyArg' = FALSE) ]_vars

\* C4 (amended): the same, for capture events delivered once initCanvas has
\* created the ink canvas.
C4_OrderAndAdvanceOnceInitialised ==
    [][ /\ \/ activeStrokeIdx' \in { activeStrokeIdx, activeStrokeIdx + 1 }
           \/ activeStrokeIdx' = 0 /\ (resets' = resets + 1 \/ Remounted)
        /\ \A p \in Points :
              SurfaceReady /\ CaptureEventAt(p) /\ NearEnd(p) =>
                 /\ activeStrokeIdx' = activeStrokeIdx + 1
                 /\ (activeStrokeIdx + 1 = NumStrokes /\ resets = 0 =>
                        successCalls' = 1 /\ hadPenaltyArg' = FALSE) ]_vars

C4_Witness ==
    /\ currentLevel.letter = "A"
    /\ activeStrokeIdx = 3
    /\ resets = 0
    /\ successCalls = 1
    /\ hadPenaltyArg = FALSE

\* C5: a step that makes the level active (game start, advance to the next
\* letter, restart) leaves index 0, no mistakes, no success flag and empty ink.
C5_FreshOnActivation ==
    [][ gameState # "PLAYING" /\ gameState' = "PLAYING" =>
           /\ activeStrokeIdx' = 0
           /\ mistakes' = 0
           /\ successTriggered' = FALSE
           /\ InkEmpty(ink') ]_vars

C5_Witness ==
    /\ gameState = "PLAYING"
    /\ currentLevelIdx = 1
    /\ penalties = 1
    /\ activeStrokeIdx = 0
    /\ mistakes = 0
    /\ ~successTriggered
    /\ ink = NoInk

\* C6: a reset adds exactly 1 to the mistakes, puts the index at 0, leaves the
\* success flag false and empties the ink.
C6_ResetEffect ==
    [][ resets' = resets + 1 =>
           /\ mistakes' = mistakes + 1
           /\ activeStrokeIdx' = 0
           /\ ~successTriggered /\ ~successTriggered'
           /\ InkEmpty(ink') ]_vars

C6_Witness ==
    /\ resets = 1
    /\ mistakes = 1
    /\ activeStrokeIdx = 0
    /\ frame.guide = 1
    /\ ink # NoInk
    /\ InkEmpty(ink)

\* C7: while the level is not active or success has been triggered, no step
\* on the mounted letter attempt is a reset: the attempt's reset count,
\* mistakes, index and success flag stay, and so does the ink unless the
\* surface is resized.
C7_NoResetWhenDisabled ==
    [][ Mounted /\ (~IsActive \/ successTriggered) /\ ~Remounted =>
           /\ resets' = resets
           /\ mistakes' = mistakes
           /\ activeStrokeIdx' = activeStrokeIdx
           /\ successTriggered' = successTriggered
           /\ (surface' = surface => ink' = ink) ]_vars

C7_Witness ==
    /\ gameState = "SUCCESS_ANIMATION"
    /\ successTriggered
    /\ mistakes < MaxMistakes
    /\ ink.snapped # {}

\* C8: a pointer event (down, move, up, leave) delivered while the level is
\* not active, success has been triggered or no stroke is active changes
\* neither the index, the mistakes, the success flag, the ink nor the number
\* of onSuccess invocations.
C8_PointerNoOpWhenBlocked ==
    [][ /\ Mounted
        /\ ~IsActive \/ successTriggered \/ activeStrokeIdx >= NumStrokes
        /\ PointerEvent
        => UNCHANGED << activeStrokeIdx, mistakes, successTriggered, ink, successCalls >> ]_vars

C8_Witness ==
    /\ gameState = "FINISHED"
    /\ successTriggered
    /\ activeStrokeIdx >= NumStrokes
    /\ ink.snapped # {}

\* C9 (as stated): a capture event completes the active stroke exactly when
\* the pointer is within 8% of the width of the stroke's end point.
C9_EndProximityDecides ==
    [][ \A p \in Points :
           CaptureEventAt(p) =>
              (activeStrokeIdx' = activeStrokeIdx + 1 <=> NearEnd(p)) ]_vars

\* C9 (amended): once initCanvas has created the ink canvas, a capture event
\* completes the active stroke exactly when the pointer is within 8% of the
\* width of the stroke's end point, whatever ink was stamped; otherwise the
\* index stays.
C9_EndProximityDecidesOnceInitialised ==
    [][ \A p \in Points :
           SurfaceReady /\ CaptureEventAt(p) =>
              IF NearEnd(p)
              THEN activeStrokeIdx' = activeStrokeIdx + 1
              ELSE activeStrokeIdx' = activeStrokeIdx ]_vars

\* The first stroke of "A" completed by a pointer that stamped no ink
C9_Witness ==
    /\ currentLevel.letter = "A"
    /\ activeStrokeIdx = 1
    /\ ink.snapped = {0}
    /\ ink.stamps = {}

\* C10 (as stated): when onSuccess runs the ink is snapped and the committed
\* session state is index = stroke count and successTriggered = TRUE.
C10_StateAtCallback ==
    cbView.called =>
        /\ cbView.snapped
        /\ cbView.idx = NumStrokes
        /\ cbView.success = TRUE

\* C10 (amended): onSuccess runs after the snap and after the increment and
\* the success flag have been requested; they are committed with the handler,
\* so every state from that commit on has index = stroke count and
\* successTriggered = TRUE, while the callback itself still ran over the
\* last stroke's index and a false flag.
C10_StateFromCommit ==
    cbView.called =>
        /\ cbView.snapped
        /\ cbView.idx = NumStrokes - 1
        /\ cbView.success = FALSE
        /\ activeStrokeIdx = NumStrokes
        /\ successTriggered

C10_Witness ==
    /\ cbView.called
    /\ gameState = "SUCCESS_ANIMATION"
    /\ pending.phase = "speech"

C12_PointerUpEndsCapture ==
    [][ /\ Mounted /\ (PointerUp \/ PointerLeave) =>
           /\ isDrawing' = FALSE
           /\ UNCHANGED << activeStrokeIdx, mistakes, successTriggered, ink, successCalls >>
        /\ Mounted /\ ~isDrawing /\ (\E p \in Points : PointerMove(p)) =>
           /\ isDrawing' = FALSE
           /\ UNCHANGED << activeStrokeIdx, mistakes, successTriggered, ink, successCalls >>
      ]_vars

\* A capture was ended on a partly inked first stroke
C12_Witness ==
    /\ IsActive
    /\ ~isDrawing
    /\ lastPos = NoPos
    /\ activeStrokeIdx = 0
    /\ resets = 0
    /\ ink.stamps # {}

\* Squared distance, in squared units of the 0..100 space, between points
SqDist(ax, ay, bx, by) == (ax - bx) * (ax - bx) + (ay - by) * (ay - by)

\* q lies on the segment of stroke s
OnSegment(s, q) ==
    LET dX  == s.end.x - s.start.x
        dY  == s.end.y - s.start.y
        vX  == q[1] - s.start.x
        vY  == q[2] - s.start.y
        dot == vX * dX + vY * dY
    IN  vX * dY - vY * dX = 0 /\ dot >= 0 /\ dot <= dX * dX + dY * dY

\* q is at distance d or more from the segment of stroke s
FarFromSegment(s, q, d) ==
    LET dX  == s.end.x - s.start.x
        dY  == s.end.y - s.start.y
        vX  == q[1] - s.start.x
        vY  == q[2] - s.start.y
        dot == vX * dX + vY * dY
        crs == vX * dY - vY * dX
    IN  IF dot < 0 THEN SqDist(q[1], q[2], s.start.x, s.start.y) >= d * d
        ELSE IF dot > dX * dX + dY * dY THEN SqDist(q[1], q[2], s.end.x, s.end.y) >= d * d
        ELSE crs * crs >= d * d * (dX * dX + dY * dY)

\* Distance of q from the centre of the arc of stroke s, in hundredths
RadiusAt(s, q) ==
    LET c == ArcCentre(s)
    IN  Isqrt(SqDist(100 * q[1], 100 * q[2], c[1], c[2]))

\* The arc of "a" is the part of its circle left of the chord x = 70
BesideArc(s, q) == q[1] <= s.start.x

\* q lies on the arc of stroke s, to within half a unit
OnArc(s, q) == BesideArc(s, q) /\ Abs(RadiusAt(s, q) - 100 * s.r) <= 50

\* q is at distance d or more from the arc of stroke s
FarFromArc(s, q, d) ==
    /\ SqDist(q[1], q[2], s.start.x, s.start.y) >= d * d
    /\ SqDist(q[1], q[2], s.end.x, s.end.y) >= d * d
    /\ Abs(RadiusAt(s, q) - 100 * s.r) >= 100 * d

\* C13: a sample on the active stroke's path is accepted and inked; a sample
\* 13 units or more (half-width 12 plus 1) from the path is rejected and
\* leaves no ink.
C13_HitBand ==
    isDrawing /\ lastPos # NoPos =>
        LET q == lastPos[1]
            s == letterConfig[activeStrokeIdx + 1]
        IN  IF s.cmd = "L"
            THEN /\ OnSegment(s, q) => q \in ink.stamps
                 /\ FarFromSegment(s, q, 13) => q \notin ink.stamps
            ELSE /\ OnArc(s, q) => q \in ink.stamps
                 /\ FarFromArc(s, q, 13) => q \notin ink.stamps

\* A sample on the arc of "a" was accepted
C13_Witness ==
    /\ currentLevel.letter = "a"
    /\ activeStrokeIdx = 0
    /\ isDrawing
    /\ lastPos # NoPos
    /\ lastPos[1] = << 37, 60 >>
    /\ << 37, 60 >> \in ink.stamps

\* The pointer at p is inside the tolerance band of stroke j (from 1) of the
\* letter
InBandOf(j, p) ==
    IsPointInStroke(letterConfig[j], PathGeom(letterConfig[j]),
                    ToPathSpace(ClientPos(p, surface[1]), surface[1]))

\* The pointer at p is strictly within 8% of the width of the end point of
\* stroke j (from 1) of the letter
NearEndOf(j, p) ==
    LET e == letterConfig[j].end
    IN  SqDist(p[1], p[2], e.x, e.y) < 8 * 8

\* C14: a pointer-down whose sample is inside the band of another stroke of
\* the letter but outside the active stroke's band stamps no ink, and a
\* capture event near the end point of another stroke but not near the active
\* stroke's end point completes no stroke.
C14_ActiveStrokeOnly ==
    [][ \A p \in Points :
           SurfaceReady /\ CaptureEventAt(p) =>
              /\ ( /\ PointerDown(p)
                   /\ ~InBandOf(activeStrokeIdx + 1, p)
                   /\ \E j \in 1..NumStrokes : j # activeStrokeIdx + 1 /\ InBandOf(j, p) )
                 => ink'.stamps = ink.stamps
              /\ ( /\ ~NearEndOf(activeStrokeIdx + 1, p)
                   /\ \E j \in 1..NumStrokes : j # activeStrokeIdx + 1 /\ NearEndOf(j, p) )
                 => /\ activeStrokeIdx' = activeStrokeIdx
                    /\ successCalls' = successCalls
                    /\ ink'.snapped = ink.snapped ]_vars

\* The second stroke of "A" is active and a capture started on the first
\* stroke's path has stamped nothing
C14_Witness ==
    /\ currentLevel.letter = "A"
    /\ activeStrokeIdx = 1
    /\ isDrawing
    /\ lastPos # NoPos
    /\ lastPos[1] = << 35, 50 >>
    /\ ink.stamps = {}

\* C15: for a level whose letter has no geometry the Tracing Surface fails
\* safe: nothing of it throws, it shows no guide and its session state stays
\* as mounted.
C15_MissingGeometryFailsSafe ==
    gameState # "INTRO" /\ ~HasGeometry(currentLevel.letter) =>
        /\ ~thrown
        /\ frame.guide = NoGuide
        /\ activeStrokeIdx = 0
        /\ mistakes = 0
        /\ ~successTriggered

\* C20: when no 2D context can be acquired, the render passes (the init
\* timer, a resize) and the pointer handlers change neither the session
\* state, the ink, the frame nor the orchestrator's state, complete nothing
\* and throw nothing.
C20_NoContextNoOp ==
    [][ /\ Mounted
        /\ ~ctxAvailable
        /\ PointerEvent \/ InitTimer \/ (\E sf \in Surfaces : Resize(sf))
        => /\ UNCHANGED << activeStrokeIdx, mistakes, successTriggered, successCalls,
                           gameState, frame >>
           /\ InkEmpty(ink')
           /\ ~thrown' ]_vars

\* Without a context, a capture started near the end of the first stroke,
\* the ink canvas being allocated, has completed nothing
C20_Witness ==
    /\ ~ctxAvailable
    /\ Mounted
    /\ ink # NoInk
    /\ isDrawing
    /\ lastPos # NoPos
    /\ lastPos[1] = << 18, 90 >>
    /\ activeStrokeIdx = 0

\* C16: once the success callback has run, the speech call returning, with or
\* without audio, arms the advance timer; and after a speech call that
\* returned no audio the level still ends: the game reaches FINISHED, or
\* PLAYING with a fresh session of the next letter that accepts tracing.
C16_SpeechFailureAdvances ==
    /\ (gameState = "SUCCESS_ANIMATION" /\ pending.phase = "speech")
          ~> (pending.phase = "timer")
    /\ (gameState = "SUCCESS_ANIMATION" /\ pending.phase = "timer" /\ ~pending.audio)
          ~> /\ pending = Idle
             /\ \/ gameState = "FINISHED"
                \/ /\ gameState = "PLAYING"
                   /\ Mounted
                   /\ activeStrokeIdx = 0
                   /\ ~successTriggered

\* The speech call of the first level has returned without audio and the
\* advance timer is running
C16_Witness ==
    /\ gameState = "SUCCESS_ANIMATION"
    /\ currentLevelIdx = 0
    /\ pending.phase = "timer"
    /\ ~pending.audio

\* C17: the level index stays within 0..LEVELS.length - 1; PLAYING is left
\* only for SUCCESS_ANIMATION and only by the success callback;
\* SUCCESS_ANIMATION is left only once the speech call has returned and the
\* timer fires, for PLAYING with the index raised by exactly one when the
\* level is not the last, for FINISHED with the index kept when it is; the
\* index changes in no other step but a restart, which returns it to 0.
C17_LevelSequencing ==
    [][ /\ currentLevelIdx' \in 0..(NumLevels - 1)
        /\ gameState = "PLAYING" /\ gameState' # "PLAYING"
             => /\ gameState' = "SUCCESS_ANIMATION"
                /\ successCalls' = successCalls + 1
                /\ currentLevelIdx' = currentLevelIdx
        /\ successCalls' = successCalls + 1
             => gameState = "PLAYING" /\ gameState' = "SUCCESS_ANIMATION"
        /\ gameState = "SUCCESS_ANIMATION" /\ gameState' # "SUCCESS_ANIMATION"
             => /\ pending.phase = "timer"
                /\ IF currentLevelIdx < NumLevels - 1
                   THEN /\ gameState' = "PLAYING"
                        /\ currentLevelIdx' = currentLevelIdx + 1
                   ELSE /\ gameState' = "FINISHED"
                        /\ currentLevelIdx' = currentLevelIdx
        /\ gameState = "SUCCESS_ANIMATION" /\ pending.phase = "timer" /\ pending' # pending
             => gameState' # "SUCCESS_ANIMATION"
        /\ currentLevelIdx' # currentLevelIdx
             => \/ gameState = "SUCCESS_ANIMATION" /\ gameState' = "PLAYING"
                \/ gameState = "FINISHED" /\ gameState' = "PLAYING"
                                         /\ currentLevelIdx' = 0 ]_vars

\* The last level has been finished after every level before it
C17_Witness ==
    /\ gameState = "FINISHED"
    /\ currentLevelIdx = NumLevels - 1
    /\ pending = Idle

\* C18: the frame left by a Reset click shows the guide of the first stroke
\* and no ink.
C18_ResetRendersPostResetState ==
    [][ resets' = resets + 1 =>
           /\ frame'.drawn
           /\ frame'.guide = 0
           /\ ~frame'.inked ]_vars

\* C19: every timer and resize listener still registered runs the initCanvas
\* of the committed render of the mounted instance, none when no instance is
\* mounted; so a timer or a resize renders the guide of the current stroke
\* index, and a new instance starts with a blank canvas and no ink canvas.
C19_TeardownCancels ==
    /\ [](\A cb \in initPending.timers \cup initPending.listeners :
             Mounted /\ cb = CurrentCallback)
    /\ [][ /\ Mounted /\ (InitTimer \/ \E sf \in Surfaces : Resize(sf))
               => frame' = renderFrame(activeStrokeIdx, ink')
           /\ Remounted => frame' = Blank /\ ink' = NoInk ]_vars

\* The second level's instance has replaced the first's: only its own timer
\* is pending and nothing of the previous letter is shown
C19_Witness ==
    /\ gameState = "PLAYING"
    /\ currentLevelIdx = 1
    /\ initPending.timers = {Callback("a", 0)}
    /\ initPending.listeners = {Callback("a", 0)}
    /\ frame = Blank
    /\ ink = NoInk

\* The coordinate v is within the 0..100 space
InUnitSpace(v) == v >= 0 /\ v <= 100

\* C21: every letter of the geometry table has at least one stroke, and the
\* start and end point of each of its strokes have both coordinates within
\* 0..100; so are the strokes the surface holds as letterConfig.
C21_GeometryWellFormed ==
    /\ \A l \in DOMAIN LETTER_PATHS :
          /\ Len(LETTER_PATHS[l]) >= 1
          /\ \A j \in 1..Len(LETTER_PATHS[l]) :
                LET s == LETTER_PATHS[l][j]
                IN  /\ InUnitSpace(s.start.x) /\ InUnitSpace(s.start.y)
                    /\ InUnitSpace(s.end.x) /\ InUnitSpace(s.end.y)
    /\ NumStrokes >= 1
    /\ \A j \in 1..NumStrokes :
          /\ InUnitSpace(letterConfig[j].start.x) /\ InUnitSpace(letterConfig[j].start.y)
          /\ InUnitSpace(letterConfig[j].end.x) /\ InUnitSpace(letterConfig[j].end.y)

\* The second letter's geometry is in use: its surface is initialised and
\* shows the guide of its first stroke
C21_Witness ==
    /\ gameState = "PLAYING"
    /\ currentLevel.letter = "a"
    /\ frame.drawn
    /\ frame.guide = 0
    /\ ink # NoInk

\* q lies on the path of stroke s
OnPath(s, q) == IF s.cmd = "L" THEN OnSegment(s, q) ELSE OnArc(s, q)

\* q is at distance d or more from the path of stroke s
FarFromPath(s, q, d) == IF s.cmd = "L" THEN FarFromSegment(s, q, d) ELSE FarFromArc(s, q, d)

\* C22: a step that completes a stroke (the index rises) ends the capture,
\* adds exactly the completed stroke to the snapped strokes, whose snap inks
\* every observed pixel on its path and none 9 units or more (half the track
\* width of 16, plus 1) from it, raises the index by exactly 1, leaves the
\* mistake count alone, and sets successTriggered exactly when the new index
\* is the stroke count.
C22_StrokeCompletion ==
    [][ activeStrokeIdx' > activeStrokeIdx =>
           LET s == letterConfig[activeStrokeIdx + 1]
           IN  /\ isDrawing' = FALSE
               /\ lastPos' = NoPos
               /\ ink'.snapped = ink.snapped \cup {activeStrokeIdx}
               /\ \A q \in Points :
                     /\ OnPath(s, q) => q \in InkPixels(currentLevel.letter, ink')
                     /\ FarFromPath(s, q, 9) => ~SnapCovers(s, q)
               /\ activeStrokeIdx' = activeStrokeIdx + 1
               /\ mistakes' = mistakes
               /\ successTriggered' = (activeStrokeIdx' = NumStrokes) ]_vars

\* Two strokes of "A" are complete and snapped, no capture is in progress
\* and the letter is not yet done
C22_Witness ==
    /\ currentLevel.letter = "A"
    /\ activeStrokeIdx = 2
    /\ ink.snapped = {0, 1}
    /\ ~isDrawing
    /\ ~successTriggered
    /\ mistakes = 0

\* This step is a detection frame yielding fr
FrameStep(fr) == predict(fr) \/ LoadedData(fr)

\* C23: the pinch state turns on only in a frame with a hand whose
\* thumb-index distance is below 0.05, turns off only in a frame with a hand
\* whose distance is above 0.09, and is kept by every frame whose distance is
\* within [0.05, 0.09]; outside detection frames it changes only when a new
\* adapter instance starts, not pinching.
C23_PinchHysteresis ==
    [][ /\ \A fr \in Frames :
              FrameStep(fr) =>
                 /\ ~wasPinching /\ wasPinching' => fr.hand /\ fr.dist < 50
                 /\ wasPinching /\ ~wasPinching' => fr.hand /\ fr.dist > 90
                 /\ fr.dist >= 50 /\ fr.dist <= 90 => wasPinching' = wasPinching
        /\ wasPinching' # wasPinching =>
              \/ \E fr \in Frames : FrameStep(fr)
              \/ ~isGestureMode /\ isGestureMode' /\ ~wasPinching' ]_vars

\* The adapter is pinching while its loop runs, the pinch having started off
\* the canvas
C23_Witness ==
    /\ isGestureMode
    /\ predicting
    /\ wasPinching
    /\ synth.type = "pointerdown"
    /\ ~synth.onCanvas

\* The last synthetic event was a pointerdown or a pressed move: the stream
\* is between a pointerdown and the next pointerup
SynthOpen(ev) == ev.type = "pointerdown" \/ (ev.type = "pointermove" /\ ev.buttons = 1)

\* C24: each synthetic event dispatched by an adapter instance fits what was
\* dispatched before it: a pointerdown or a hover move (buttons = 0) comes
\* only outside a pointerdown..pointerup pair, a pointerup or a pressed move
\* (buttons = 1) only inside one; the first of them is never a pointerup.
C24_SynthStreamWellFormed ==
    [][ synth'.seq # synth.seq /\ synth'.type # "none" =>
           /\ synth'.type \in {"pointerdown", "pointermove", "pointerup"}
           /\ synth'.type = "pointerdown" => ~SynthOpen(synth) /\ synth'.buttons = 1
           /\ synth'.type = "pointerup" => SynthOpen(synth) /\ synth'.buttons = 0
           /\ synth'.type = "pointermove" => (synth'.buttons = 1) = SynthOpen(synth) ]_vars

\* A pointerdown..pointerup pair has been dispatched, its pointerup off the
\* canvas
C24_Witness ==
    /\ synth.type = "pointerup"
    /\ ~synth.onCanvas
    /\ ~wasPinching

\* C28: a synthetic hover move (buttons = 0) that reaches the canvas finds it
\* out of capture, stamps no ink and completes no stroke.
C28_NoCaptureAfterRelease ==
    [][ /\ synth'.seq # synth.seq
        /\ synth'.type = "pointermove"
        /\ synth'.buttons = 0
        /\ synth'.onCanvas
        => /\ ~isDrawing
           /\ ink' = ink
           /\ activeStrokeIdx' = activeStrokeIdx ]_vars

\* C30: once gesture mode is off and the requests of the unmounted instance
\* have settled, after which nothing acts on it any more, no camera track is
\* live, the landmarker is not open and no detection loop runs.
C30_GestureOffReleases ==
    ~isGestureMode /\ landmarker # "pending" /\ camera # "pending" =>
        /\ camera # "live"
        /\ landmarker # "open"
        /\ ~predicting

\* C25: finishGame gives 3 stars for no penalty, 2 for 1 or 2, 1 for 3 to 5
\* and 0 for more than 5; the stars are always within 0..3, and no smaller
\* penalty count gives fewer stars.
C25_StarsThresholds ==
    /\ [](stars \in 0..3)
    /\ [][ gameState # "FINISHED" /\ gameState' = "FINISHED" =>
              LET p == pending.penalties
              IN  /\ stars' = IF p = 0 THEN 3
                              ELSE IF p <= 2 THEN 2
                              ELSE IF p <= 5 THEN 1
                              ELSE 0
                  /\ \A q \in 0..p : StarsFor(q) >= stars' ]_vars

\* The game has finished with more than five penalties and shows no star
C25_Witness ==
    /\ gameState = "FINISHED"
    /\ penalties > 5
    /\ stars = 0

\* C26: the index is within 0..stroke count, successTriggered holds exactly
\* when the index is the stroke count, and whenever startDrawing or draw
\* passes its guard the stroke at the index exists.
C26_SessionInvariant ==
    /\ activeStrokeIdx \in 0..NumStrokes
    /\ successTriggered = (activeStrokeIdx = NumStrokes)
    /\ StartAllowed \/ DrawAllowed(isDrawing) => ActiveStrokeNo \in DOMAIN letterConfig

\* The second letter is complete: the index is its stroke count and the
\* flag is set
C26_Witness ==
    /\ gameState = "SUCCESS_ANIMATION"
    /\ currentLevel.letter = "a"
    /\ activeStrokeIdx = NumStrokes
    /\ successTriggered

\* C27: no step raises the index by more than one; a step that completes a
\* stroke ends the capture; only a pointer-down starts one; and a
\* pointer-move outside a capture changes nothing of the session, the ink or
\* the orchestrator.
C27_OneStrokePerCapture ==
    [][ /\ activeStrokeIdx' <= activeStrokeIdx + 1
        /\ successCalls' <= successCalls + 1
        /\ activeStrokeIdx' > activeStrokeIdx => ~isDrawing'
        /\ ~isDrawing /\ isDrawing' => \E p \in Points : PointerDown(p)
        /\ \A p \in Points :
              ~isDrawing /\ PointerMove(p) =>
                 UNCHANGED << activeStrokeIdx, successTriggered, mistakes, ink,
                              successCalls, gameState >> ]_vars

\* The first stroke of "a" is complete and no capture is in progress, the
\* end points of both its strokes being within tolerance of the point
\* (70, 80)
C27_Witness ==
    /\ currentLevel.letter = "a"
    /\ activeStrokeIdx = 1
    /\ ~isDrawing
    /\ lastPos = NoPos
    /\ 0 \in ink.snapped
    /\ NearEndOf(1, << 70, 80 >>)
    /\ NearEndOf(2, << 70, 80 >>)

C31_EveryLevelHasGeometry ==
    /\ \A i \in 1..NumLevels : LEVELS[i].letter \in DOMAIN LETTER_PATHS
    /\ missing = {}
    /\ currentLevelIdx \in 0..(NumLevels - 1)
    /\ currentLevel.letter \in DOMAIN LETTER_PATHS
    /\ gameState # "INTRO" => HasGeometry(currentLevel.letter) /\ ~thrown

\* The last level of the script is on the Tracing Surface, which has looked
\* up its second stroke and shows it as the guide
C31_Witness ==
    /\ gameState = "PLAYING"
    /\ currentLevelIdx = NumLevels - 1
    /\ HasGeometry(currentLevel.letter)
    /\ ~thrown
    /\ activeStrokeIdx = 1
    /\ frame.guide = 1

====
